---- MODULE Spec2Model ----
(***************************************************************************)
(* Agent control plane of the Ownly headless utility.                      *)
(*                                                                         *)
(* The repository holds four revisions of the same entry point:            *)
(*   "cli"      src/unnamed/part_000 lines   1-260  (command-line chat)     *)
(*   "server0"  src/unnamed/part_000 lines 262-647  (HTTP, digest + reply)  *)
(*   "digest"   src/unnamed/part_001                (HTTP/record, digest)   *)
(*   "headless" src/src/node/headless.ts            (HTTP, AI reply)        *)
(* One process runs one revision; the revision is fixed in Init.           *)
(*                                                                         *)
(* Node runs one JavaScript job at a time, so every action below is the    *)
(* code between two awaits.  A promise rejection nobody awaits ends the    *)
(* process (Node >= 15 default; the sources require Node 23).              *)
(***************************************************************************)
EXTENDS Integers, Sequences, FiniteSets, Bags, TLC

VARIABLES
    variant,      \* which revision of the entry point this process runs
    proc,         \* "running" | "exit0" | "exit1" | "crashed"
    mainPc,       \* position of main(): "init" | "resume" | "serving" | "agent"
    activeAgent,  \* globalThis._activeAgent
    stats,        \* globalThis._o.stats : workspace name -> metadata
    wkspEnv,      \* contents of ./wksp.env
    agenda,       \* whether some project of the workspace has a file /agenda.md
    starts,       \* one record per startAgent call / POST /agent request
    callbacks,    \* bag of the running invocations of the 'chat' listener
    pending,      \* chat messages not yet delivered to the listeners
    joins,        \* Workspace.join calls issued: <<wkspName, psk>>
    extLog,       \* bag of what the process did that shows outside: publishes,
                  \* mail sends, sendMail results, errors nobody caught
    nEvents,      \* chat messages authored by other peers so far
    mdText,       \* text of the file /agenda.md
    template,     \* contents of ./mail-template.html
    hasKey,       \* what ndn.api.has_testbed_key() answers
    ndncert       \* the pending ndn.api.ndncert_email call, or NoCall

vars == << variant, proc, mainPc, activeAgent, stats, wkspEnv, agenda,
           starts, callbacks, pending, joins, extLog, nEvents, mdText, template,
           hasKey, ndncert >>

----------------------------------------------------------------------------
(* Bounds *)

MaxStarts == 2
MaxEvents == 1
MaxDocLen == 7
MaxTemplateParts == 4
MaxStatus == 3

----------------------------------------------------------------------------
(* Values *)

Variants == {"cli", "server0", "digest", "headless"}
Wksps == {"w1", "w2"}
\* channel names asked for: none, or "general", which exists only in w1
ChannelInputs == {"", "general"}
\* channels other peers write on
EventChannels == {"general", "random"}
NullAgent == [wkspName |-> "", channelName |-> ""]

\* text of a chat message, as a sequence of characters
AGENT_ID == << "A", "G", "E", "N", "T", ":", " " >>
InputText == << "i", "n", "p", "u", "t" >>
TextInputs == { << "h", "i" >>, AGENT_ID \o << "h", "i" >> }
GeneratedTexts == { << "o", "k" >> }

\* a hex string is given by its length and the position of its first
\* character that is not a hex digit (0 when all are)
PskHexInputs == { [len |-> 64, bad |-> 0], [len |-> 62, bad |-> 0], [len |-> 64, bad |-> 11] }

\* Buffer.from(psk, 'hex').length : two digits per byte, decoding stops at
\* the first pair that is not hex, a trailing single digit is dropped
BufferFromHexLength(h) ==
    IF h.bad = 0 THEN h.len \div 2 ELSE (h.bad - 1) \div 2

\* a PSK value handed to startAgent: a Uint8Array ("u8") or the plain object
\* JSON.parse gives back for a stringified Uint8Array ("obj"), with n bytes
PskU8(n) == [kind |-> "u8", n |-> n]
PskObj(n) == [kind |-> "obj", n |-> n]

\* chat.getChannels() of each workspace: w1 has one channel, w2 has none
Channels(w) == IF w = "w1" THEN << "general" >> ELSE << >>
StatsInits == { [w \in Wksps |-> "absent"], [w \in Wksps |-> "meta"] }
WkspEnvInits == { [present |-> FALSE, wkspName |-> "", psk |-> PskObj(0), channel |-> ""] }
    \cup { [present |-> TRUE, wkspName |-> "w1", psk |-> PskObj(n), channel |-> c] :
             n \in {31, 32}, c \in {"general"} }

AgendaInits == { [w \in Wksps |-> b] : b \in BOOLEAN }

\* all sequences over S of length at most n
Seqs(S, n) == UNION { [1..k -> S] : k \in 0..n }

\* the concatenation of a sequence of sequences
RECURSIVE Concat(_)
Concat(parts) == IF parts = << >> THEN << >> ELSE Head(parts) \o Concat(Tail(parts))

\* agenda texts: headings and other characters
Documents == Seqs({"#", "a"}, MaxDocLen)

\* mail templates: made of <hr> tags, cut-off tags and other characters
TemplateParts == { << "<", "h", "r", ">" >>, << "x" >>, << "<", "h" >> }
Templates == { Concat(parts) : parts \in Seqs(TemplateParts, MaxTemplateParts) }

\* an agenda with three headings, and the template the mail is built from
AgendaText == << "#", "#", "a", "#", "#", "b", "#", "#", "c" >>
TemplateText == << "x", "<", "h", "r", ">", "y", "<", "h", "r", ">", "z" >>

Range(s) == { s[i] : i \in 1..Len(s) }

----------------------------------------------------------------------------
(* JavaScript string functions, on sequences of characters; offsets count  *)
(* from 0 as in the code                                                   *)

Min(a, b) == IF a < b THEN a ELSE b
Max(a, b) == IF a < b THEN b ELSE a

\* an offset argument of substring / indexOf is clamped to 0..length
Clamp(n, len) == IF n < 0 THEN 0 ELSE IF n > len THEN len ELSE n

\* s.substring(a, b): both ends clamped, swapped when a > b
Substring(s, a, b) ==
    LET x == Clamp(a, Len(s))
        y == Clamp(b, Len(s))
    IN SubSeq(s, Min(x, y) + 1, Max(x, y))

\* s.substring(a)
SubstringFrom(s, a) == Substring(s, a, Len(s))

\* pat occurs in s at offset k
MatchesAt(s, pat, k) ==
    k + Len(pat) <= Len(s) /\ SubSeq(s, k + 1, k + Len(pat)) = pat

\* s.indexOf(pat, from): the first offset >= from where pat occurs, or -1
IndexOf(s, pat, from) ==
    LET hits == { k \in Clamp(from, Len(s))..Len(s) : MatchesAt(s, pat, k) }
    IN IF hits = {} THEN -1 ELSE CHOOSE k \in hits : \A j \in hits : k <= j

\* s.split(sep) for a non-empty sep: the text is scanned from the left and
\* the search resumes behind each separator found
RECURSIVE SplitAll(_, _)
SplitAll(s, sep) ==
    LET k == IndexOf(s, sep, 0)
    IN IF k = -1 THEN << s >>
       ELSE << SubSeq(s, 1, k) >> \o SplitAll(SubstringFrom(s, k + Len(sep)), sep)

\* s.split(sep, limit): at most limit pieces, the rest is dropped
Split(s, sep, limit) ==
    LET all == SplitAll(s, sep) IN SubSeq(all, 1, Min(limit, Len(all)))

\* a.join(sep)
RECURSIVE Join(_, _)
Join(a, sep) ==
    IF Len(a) = 0 THEN << >>
    ELSE IF Len(a) = 1 THEN a[1]
    ELSE a[1] \o sep \o Join(Tail(a), sep)

\* s.trim(): white space is removed from both ends
WhiteSpace == {" ", "\n"}

RECURSIVE TrimStart(_)
TrimStart(s) ==
    IF s # << >> /\ Head(s) \in WhiteSpace THEN TrimStart(Tail(s)) ELSE s

RECURSIVE TrimEnd(_)
TrimEnd(s) ==
    IF s # << >> /\ s[Len(s)] \in WhiteSpace THEN TrimEnd(SubSeq(s, 1, Len(s) - 1)) ELSE s

\* (mutant) the data is returned as it arrived
Trim_None(s) == s

Trim(s) == TrimEnd(TrimStart(s))

----------------------------------------------------------------------------
(* The digest: agenda text -> mail body *)

HeaderMark == << "#", "#" >>
HrTag == << "<", "h", "r", ">" >>

\* (mutant) the text is split into two pieces only
ThirdHeaderPos_Limit2(text) == Len(Join(Split(text, HeaderMark, 2), HeaderMark))

\* mdText.split("##", 3).join("##").length
ThirdHeaderPos(text) == Len(Join(Split(text, HeaderMark, 3), HeaderMark))

\* mdText.substring(0, thirdHeaderPos)
CutText(text) == Substring(text, 0, ThirdHeaderPos(text))

\* markdown(cutText): the HTML rendering of the text.  Its markup is not
\* modelled; the rendering is the text between an opening and a closing mark
Markdown(text) == << "<md>" >> \o text \o << "</md>" >>

\* (mutant) the offset of the first <hr> itself, not of its end
Hr1_AtTag(email) == IndexOf(email, HrTag, 0)

\* email.indexOf("<hr>") + 4
Hr1(email) == IndexOf(email, HrTag, 0) + 4

\* email.indexOf("<hr>", hr1)
Hr2(email) == IndexOf(email, HrTag, Hr1(email))

\* email.substring(0, hr1) + html + email.substring(hr2)
Splice(email, html) ==
    Substring(email, 0, Hr1(email)) \o html \o SubstringFrom(email, Hr2(email))

\* the html of the mail the listener sends
MailHtml == Splice(template, Markdown(CutText(mdText)))

\* status tags the identity service passes to the callback of
\* ndncert_email; "pending" stands for every tag the switch does not name
Statuses == {"need-code", "wrong-code", "pending"}

\* what arrives on stdin while a code is asked for
CodeEntries == { << "1", "2", "\n" >>, << " ", "7", " ", "\n" >>, << "\n" >> }

\* no ndncert_email call is pending
NoCall == [pc |-> "none", n |-> 0, asked |-> 0, status |-> "", reply |-> << >>]

----------------------------------------------------------------------------
(* Which promises somebody awaits *)

\* setupWorkspace in server0 and digest forces wkspMeta.ignore
ForcesIgnore == variant \in {"server0", "digest"}

\* startAgent(...) is awaited inside the try of the POST handler only in
\* headless.ts; the cli runs the same code inline in main's try
Caught(i) == variant = "headless" /\ starts[i].origin = "http"

\* a rejection of start i: answered 500 by the handler's catch, FATAL in the
\* cli's main, or unhandled (the process ends)
RejectedStarts(i, err) ==
    [starts EXCEPT ![i].pc = "failed", ![i].err = err,
                   ![i].resp = IF Caught(i) THEN "500json" ELSE @]

RejectedProc(i) ==
    IF Caught(i) THEN proc
    ELSE IF starts[i].origin = "cli" THEN "exit1" ELSE "crashed"

NewStart(origin, w, psk, c, pc, resp) ==
    [origin |-> origin, wkspName |-> w, psk |-> psk, channelName |-> c,
     pc |-> pc, err |-> "", resp |-> resp, listed |-> "none",
     subscribed |-> FALSE]

----------------------------------------------------------------------------
(* State after the process is launched *)

Boot ==
    /\ variant \in Variants
    /\ proc = "running"
    /\ mainPc = IF variant = "cli" THEN "args" ELSE "init"
    /\ activeAgent = NullAgent
    /\ stats \in StatsInits
    /\ wkspEnv \in IF variant = "digest" THEN WkspEnvInits
                   ELSE { [present |-> FALSE, wkspName |-> "", psk |-> PskObj(0), channel |-> ""] }
    /\ agenda \in IF variant \in {"server0", "digest"} THEN AgendaInits ELSE { [w \in Wksps |-> FALSE] }
    /\ starts = << >>
    /\ callbacks = EmptyBag
    /\ pending = << >>
    /\ joins = {}
    /\ extLog = EmptyBag
    /\ nEvents = 0
    /\ hasKey \in BOOLEAN
    /\ ndncert = NoCall

Init ==
    /\ Boot
    /\ mdText = AgendaText
    /\ template = TemplateText

----------------------------------------------------------------------------
(* main *)

\* cli main: parse argv, decode and check the PSK before anything else
main_args(w, h, c) ==
    /\ proc = "running" /\ variant = "cli" /\ mainPc = "args"
    /\ IF BufferFromHexLength(h) # 32
       THEN /\ proc' = "crashed"           \* thrown outside main's try
            /\ starts' = << NewStart("cli", w, PskU8(BufferFromHexLength(h)), c, "invalid", "none") >>
            /\ mainPc' = "args"
       ELSE /\ proc' = proc
            /\ starts' = << NewStart("cli", w, PskU8(32), c, "boot", "none") >>
            /\ mainPc' = "init"
    /\ UNCHANGED << variant, activeAgent, stats, wkspEnv, agenda, callbacks,
                    pending, joins, extLog, nEvents, mdText, template,
                    hasKey, ndncert >>

\* (mutant) main goes on while initEnvironment is still running
InitReturned_NotAwaited(pc) == pc \in {"init", "ndncert", "ready"}

\* await initEnvironment() has returned in main
InitReturned(pc) == pc = "ready"

\* (mutant) the error is printed and main returns
Fatal_Swallowed(p) == p

\* main's catch: console.error('FATAL:', e); process.exit(1)
Fatal(p) == "exit1"

\* (mutant) the challenge is started whether or not a key exists
NeedsCert_Always(key) == TRUE

\* if (!(await ndn.api.has_testbed_key()))
NeedsCert(key) == ~key

\* initEnvironment up to has_testbed_key: services, Go environment, ndn.setup
\* and connect_testbed resolve, or one of them rejects (FATAL in main).  With
\* a key initEnvironment returns; without one ndncert_email is called
initEnvironment(ok) ==
    /\ proc = "running" /\ mainPc = "init"
    /\ IF ~ok THEN /\ mainPc' = "init" /\ proc' = Fatal(proc)
                   /\ ndncert' = ndncert
       ELSE IF NeedsCert(hasKey)
       THEN /\ mainPc' = "ndncert" /\ proc' = proc
            /\ ndncert' = [NoCall EXCEPT !.pc = "waiting"]
       ELSE /\ mainPc' = "ready" /\ proc' = proc
            /\ ndncert' = ndncert
    /\ UNCHANGED << variant, activeAgent, stats, wkspEnv, agenda, starts,
                    callbacks, pending, joins, extLog, nEvents, mdText, template,
                    hasKey >>

\* the identity service calls the callback with a status: 'need-code' asks
\* on stdout and waits for stdin; every other status is printed and ''
\* is returned
ndncert_status(status) ==
    /\ proc = "running" /\ mainPc = "ndncert" /\ ndncert.pc = "waiting"
    /\ ndncert.n < MaxStatus
    /\ ndncert' = IF status = "need-code"
                  THEN [ndncert EXCEPT !.pc = "asking", !.n = @ + 1, !.asked = @ + 1,
                                       !.status = status]
                  ELSE [ndncert EXCEPT !.n = @ + 1, !.status = status, !.reply = << >>]
    /\ UNCHANGED << variant, proc, mainPc, activeAgent, stats, wkspEnv, agenda, starts,
                    callbacks, pending, joins, extLog, nEvents, mdText, template,
                    hasKey >>

\* askInput: stdin delivers data; the callback returns data.toString().trim()
askInput_data(data) ==
    /\ proc = "running" /\ mainPc = "ndncert" /\ ndncert.pc = "asking"
    /\ ndncert' = [ndncert EXCEPT !.pc = "waiting", !.reply = Trim(data)]
    /\ UNCHANGED << variant, proc, mainPc, activeAgent, stats, wkspEnv, agenda, starts,
                    callbacks, pending, joins, extLog, nEvents, mdText, template,
                    hasKey >>

\* ndncert_email resolves (the key is stored) and initEnvironment returns, or
\* it rejects: the issuance failed for good, main prints FATAL and exits
ndncert_settled(ok) ==
    /\ proc = "running" /\ mainPc = "ndncert" /\ ndncert.pc = "waiting"
    /\ IF ok THEN /\ hasKey' = TRUE /\ ndncert' = NoCall
                  /\ mainPc' = "ready" /\ proc' = proc
             ELSE /\ hasKey' = hasKey /\ ndncert' = [ndncert EXCEPT !.pc = "rejected"]
                  /\ mainPc' = mainPc /\ proc' = Fatal(proc)
    /\ UNCHANGED << variant, activeAgent, stats, wkspEnv, agenda, starts,
                    callbacks, pending, joins, extLog, nEvents, mdText, template >>

\* cli: main goes on to set up the workspace
main_startAgent ==
    /\ proc = "running" /\ variant = "cli" /\ InitReturned(mainPc)
    /\ mainPc' = "agent"
    /\ starts' = [starts EXCEPT ![1].pc = "get"]
    /\ UNCHANGED << variant, proc, activeAgent, stats, wkspEnv, agenda,
                    callbacks, pending, joins, extLog, nEvents, mdText, template,
                    hasKey, ndncert >>

\* digest: ./wksp.env parsed; startAgent called with its fields, not awaited
main_resume ==
    /\ proc = "running" /\ variant = "digest" /\ InitReturned(mainPc)
    /\ wkspEnv.present
    /\ mainPc' = "agent"
    /\ starts' = Append(starts, NewStart("record", wkspEnv.wkspName, wkspEnv.psk,
                                        wkspEnv.channel, "get", "none"))
    /\ UNCHANGED << variant, proc, activeAgent, stats, wkspEnv, agenda,
                    callbacks, pending, joins, extLog, nEvents, mdText, template,
                    hasKey, ndncert >>

startHttpServer ==
    /\ proc = "running" /\ InitReturned(mainPc)
    /\ variant \in {"server0", "headless"} \/ (variant = "digest" /\ ~wkspEnv.present)
    /\ mainPc' = "serving"
    /\ UNCHANGED << variant, proc, activeAgent, stats, wkspEnv, agenda, starts,
                    callbacks, pending, joins, extLog, nEvents, mdText, template,
                    hasKey, ndncert >>

----------------------------------------------------------------------------
(* POST /agent *)

\* (mutant) the handle is installed before the agent has been started
ReplaceExisting_InstallFirst(agent, w, c) == [wkspName |-> w, channelName |-> c]

\* "Replace existing agent if running": the handle is cleared when set
ReplaceExisting(agent, w, c) == IF agent # NullAgent THEN NullAgent ELSE agent

\* a throw in the async handler outside its try: Express 4 leaves the
\* rejection unhandled (no response, the process ends), Express 5 passes it
\* to the default error handler (500 with its own body)
AsyncThrowOutcomes == {"unhandled", "default500"}

Copies(cbs, cb) == IF cb \in BagToSet(cbs) THEN CopiesIn(cb, cbs) ELSE 0

MarkReplaced(cbs) ==
    LET marked == { [cb EXCEPT !.replaced = TRUE] : cb \in BagToSet(cbs) }
    IN [cb \in marked |-> Copies(cbs, cb) + Copies(cbs, [cb EXCEPT !.replaced = FALSE])]

postAgent(w, h, c, o) ==
    /\ proc = "running" /\ mainPc = "serving"
    /\ Len(starts) < MaxStarts
    /\ IF BufferFromHexLength(h) # 32
       THEN /\ starts' = Append(starts,
                   NewStart("http", "", PskU8(BufferFromHexLength(h)), "", "invalid",
                            IF o = "default500" THEN "500default" ELSE "none"))
            /\ proc' = IF o = "unhandled" THEN "crashed" ELSE proc
            /\ UNCHANGED << activeAgent, wkspEnv, callbacks >>
       ELSE /\ activeAgent' = ReplaceExisting(activeAgent, w, c)
            /\ wkspEnv' = IF variant = "digest"
                          THEN [present |-> TRUE, wkspName |-> w, psk |-> PskObj(32), channel |-> c]
                          ELSE wkspEnv
            /\ starts' = Append(starts,
                   NewStart("http", w, PskU8(32), c, "get",
                            IF variant = "headless" THEN "none" ELSE "200"))
            /\ callbacks' = MarkReplaced(callbacks)
            /\ proc' = proc
    /\ UNCHANGED << variant, mainPc, stats, agenda, pending, joins, extLog, nEvents, mdText, template,
                    hasKey, ndncert >>

----------------------------------------------------------------------------
(* setupWorkspace *)

\* (mutant) Workspace.join is called whatever stats.get returned
NeedsJoin_Always(meta) == TRUE

\* if (!wkspMeta)
NeedsJoin(meta) == meta = "absent"

\* stats.get resolves; when there is no metadata Workspace.join is called,
\* otherwise (server0, digest) ignore is forced and stats.put is called,
\* and Workspace.setup is called
setupWorkspace_get(i, ok) ==
    /\ proc = "running" /\ i \in 1..Len(starts) /\ starts[i].pc = "get"
    /\ IF ~ok
       THEN /\ starts' = RejectedStarts(i, "MetadataError") /\ proc' = RejectedProc(i)
            /\ UNCHANGED << stats, joins >>
       ELSE LET w == starts[i].wkspName
                seen == ~NeedsJoin(stats[w])
            IN /\ starts' = [starts EXCEPT ![i].pc = IF ~seen THEN "join" ELSE "channels"]
               /\ joins' = IF ~seen THEN joins \cup { << w, starts[i].psk >> } ELSE joins
               /\ stats' = IF seen /\ ForcesIgnore THEN [stats EXCEPT ![w] = "ignore"] ELSE stats
               /\ proc' = proc
    /\ UNCHANGED << variant, mainPc, activeAgent, wkspEnv, agenda, callbacks,
                    pending, extLog, nEvents, mdText, template,
                    hasKey, ndncert >>

\* Workspace.join resolves or rejects.  In server0 and digest the next
\* statement is wkspMeta.ignore = true with wkspMeta still undefined: TypeError
setupWorkspace_join(i, ok) ==
    /\ proc = "running" /\ i \in 1..Len(starts) /\ starts[i].pc = "join"
    /\ stats' = IF ok /\ stats[starts[i].wkspName] = "absent"
                THEN [stats EXCEPT ![starts[i].wkspName] = "meta"] ELSE stats
    /\ IF ok /\ ~ForcesIgnore
       THEN /\ starts' = [starts EXCEPT ![i].pc = "channels"] /\ proc' = proc
       ELSE /\ starts' = RejectedStarts(i, IF ok THEN "TypeError" ELSE "JoinError") /\ proc' = RejectedProc(i)
    /\ UNCHANGED << variant, mainPc, activeAgent, wkspEnv, agenda, callbacks,
                    pending, joins, extLog, nEvents, mdText, template,
                    hasKey, ndncert >>

----------------------------------------------------------------------------
(* startAgent after setupWorkspace *)

\* channels.find(c => c.name === channelName)
FindChannel(channels, channelName) == channelName \in Range(channels)

\* (mutant) the listing without process.exit(0): the code below it attaches
ListOnly_FallThrough(channels) ==
    [listed |-> IF Len(channels) = 0 THEN "empty" ELSE "names",
     pc |-> "forever", proc |-> "running", subscribed |-> TRUE]

\* what an empty channelName leads to: the listing and process.exit(0)
ListOnly(channels) ==
    [listed |-> IF Len(channels) = 0 THEN "empty" ELSE "names",
     pc |-> "listed", proc |-> "exit0", subscribed |-> FALSE]

\* (stats.put,) Workspace.setup, the 2 s timer, wksp.chat and
\* chat.getChannels() resolve, or one of them rejects.  Then: list and exit,
\* or exit(1) when the channel is missing (the check is commented out in
\* digest), or go on to attach
startAgent_channels(i, ok) ==
    /\ proc = "running" /\ i \in 1..Len(starts) /\ starts[i].pc = "channels"
    /\ IF ~ok
       THEN /\ starts' = RejectedStarts(i, "SetupError") /\ proc' = RejectedProc(i)
       ELSE LET channels == Channels(starts[i].wkspName)
                name == starts[i].channelName
                lo == ListOnly(channels)
            IN IF name = ""
               THEN /\ starts' = [starts EXCEPT ![i].listed = lo.listed, ![i].pc = lo.pc,
                                                ![i].subscribed = lo.subscribed]
                    /\ proc' = lo.proc
               ELSE IF variant # "digest" /\ ~FindChannel(channels, name)
               THEN /\ starts' = [starts EXCEPT ![i].pc = "notfound"]
                    /\ proc' = "exit1"
               ELSE IF variant = "digest"
               THEN /\ starts' = [starts EXCEPT ![i].pc = "input", ![i].subscribed = TRUE]
                    /\ proc' = proc
               ELSE /\ starts' = [starts EXCEPT ![i].pc = "history"]
                    /\ proc' = proc
    /\ UNCHANGED << variant, mainPc, activeAgent, stats, wkspEnv, agenda,
                    callbacks, pending, joins, extLog, nEvents, mdText, template,
                    hasKey, ndncert >>

\* chat.getMessages resolves; chat.events.on('chat', ...) ; wait forever
startAgent_history(i, ok) ==
    /\ proc = "running" /\ i \in 1..Len(starts) /\ starts[i].pc = "history"
    /\ IF ok THEN /\ starts' = [starts EXCEPT ![i].pc = "forever", ![i].subscribed = TRUE]
                  /\ proc' = proc
             ELSE /\ starts' = RejectedStarts(i, "HistoryError") /\ proc' = RejectedProc(i)
    /\ UNCHANGED << variant, mainPc, activeAgent, stats, wkspEnv, agenda,
                    callbacks, pending, joins, extLog, nEvents, mdText, template,
                    hasKey, ndncert >>

Publication(i, text, src, replaced) ==
    [kind |-> "publish", by |-> i, text |-> text, src |-> src, replaced |-> replaced]

\* a message this process publishes with chat.sendMessage(channelName, ...)
ChatMessage(i, text) ==
    [wksp |-> starts[i].wkspName, channel |-> starts[i].channelName, text |-> text,
     from |-> "agent"]

\* digest: get_identity_name() resolves and the "input" message is published,
\* or one of the two fails
startAgent_input(i, ok) ==
    /\ proc = "running" /\ i \in 1..Len(starts) /\ starts[i].pc = "input"
    /\ IF ok THEN /\ starts' = [starts EXCEPT ![i].pc = "forever"] /\ proc' = proc
                  /\ pending' = Append(pending, ChatMessage(i, InputText))
                  /\ extLog' = extLog (+) SetToBag({ Publication(i, InputText, "attach", FALSE) })
             ELSE /\ starts' = RejectedStarts(i, "PublishError") /\ proc' = RejectedProc(i)
                  /\ UNCHANGED << pending, extLog >>
    /\ UNCHANGED << variant, mainPc, activeAgent, stats, wkspEnv, agenda,
                    callbacks, joins, nEvents, mdText, template,
                    hasKey, ndncert >>

----------------------------------------------------------------------------
(* The 'chat' listener *)

\* message.message.substring(0, 7)
Substring07(text) == SubSeq(text, 1, Min(7, Len(text)))

\* "ensure agent does not respond to itself"
NotOwnReply(text) == Substring07(text) # AGENT_ID

\* the starts whose listener is registered on the chat the message is on
Listeners(m) ==
    SelectSeq([i \in 1..Len(starts) |-> i],
              LAMBDA i : starts[i].subscribed /\ starts[i].wkspName = m.wksp)

\* the listener's code up to its first await; cli only prints
Dispatches(i, m) ==
    /\ m.channel = starts[i].channelName
    /\ CASE variant = "cli" -> FALSE
         [] variant = "digest" -> TRUE
         [] OTHER -> NotOwnReply(m.text)

\* headless: ai.generate is called.  server0, digest: the loops over the
\* projects look for /agenda.md, then the 20 s timer is started
\* message is the listener's second parameter; text is the prompt handed to
\* ai.generate, later the local variable text
NewCallback(i, m) ==
    [owner |-> i, message |-> m,
     text |-> IF variant = "headless" THEN m.text ELSE << >>,
     replaced |-> FALSE,
     found |-> variant # "headless" /\ agenda[starts[i].wkspName],
     pc |-> IF variant = "headless" THEN "generate" ELSE "settle"]

\* a message another peer wrote arrives on a chat somebody listens to
chatEvent(w, c, text) ==
    /\ proc = "running" /\ nEvents < MaxEvents
    /\ \E i \in 1..Len(starts) : starts[i].subscribed /\ starts[i].wkspName = w
    /\ pending' = Append(pending, [wksp |-> w, channel |-> c, text |-> text, from |-> "peer"])
    /\ nEvents' = nEvents + 1
    /\ UNCHANGED << variant, proc, mainPc, activeAgent, stats, wkspEnv, agenda,
                    starts, callbacks, joins, extLog, mdText, template,
                    hasKey, ndncert >>

\* chat.events emits 'chat': every registered listener is called in turn
deliver ==
    /\ proc = "running" /\ pending # << >>
    /\ LET m == Head(pending)
           ls == SelectSeq(Listeners(m), LAMBDA i : Dispatches(i, m))
       IN callbacks' = callbacks (+) SetToBag({ NewCallback(ls[k], m) : k \in 1..Len(ls) })
    /\ pending' = Tail(pending)
    /\ UNCHANGED << variant, proc, mainPc, activeAgent, stats, wkspEnv, agenda,
                    starts, joins, extLog, nEvents, mdText, template,
                    hasKey, ndncert >>

Running(cb, pc) == proc = "running" /\ cb \in BagToSet(callbacks) /\ cb.pc = pc

Without(cb) == callbacks (-) SetToBag({cb})

Moved(cb, to) == Without(cb) (+) SetToBag({to})

\* (mutant) the generated text is published as it is
Reply_NoPrefix(g) == g

\* text = AGENT_ID + text
Reply(g) == AGENT_ID \o g

\* headless: ai.generate resolves; text = AGENT_ID + text
cb_generate(cb, ok, g) ==
    /\ Running(cb, "generate")
    /\ IF ok THEN /\ callbacks' = Moved(cb, [cb EXCEPT !.text = Reply(g), !.pc = "send"])
                  /\ proc' = proc
             ELSE /\ callbacks' = Without(cb) /\ proc' = "crashed"
    /\ UNCHANGED << variant, mainPc, activeAgent, stats, wkspEnv, agenda, starts,
                    pending, joins, extLog, nEvents, mdText, template,
                    hasKey, ndncert >>

\* transporter.sendMail(mailOptions, ...) with mailOptions.html = email
Mail(cb) ==
    [kind |-> "mail", by |-> cb.owner, text |-> MailHtml, src |-> "listener",
     replaced |-> cb.replaced]

\* the error thrown inside the async listener: nobody handles the rejection
Uncaught(cb) ==
    [kind |-> "uncaught", by |-> cb.owner, text |-> << >>, src |-> "listener",
     replaced |-> cb.replaced]

\* what the sendMail callback prints: the error, or 'Email sent: ...'
MailResult(cb, ok) ==
    [kind |-> IF ok THEN "delivered" ELSE "mailerror", by |-> cb.owner,
     text |-> << >>, src |-> "sendMail", replaced |-> cb.replaced]

\* server0, digest: the timer fires; fileContents.getText throws when no
\* agenda was found; otherwise the mail is built and sendMail is called with
\* its callback.  The digest listener ends there; the server0 listener goes
\* on to publish its report
cb_settle(cb) ==
    /\ Running(cb, "settle")
    /\ IF ~cb.found
       THEN /\ callbacks' = Without(cb) /\ proc' = "crashed"
            /\ extLog' = extLog (+) SetToBag({ Uncaught(cb) })
       ELSE /\ callbacks' =
                 IF variant = "digest" THEN Moved(cb, [cb EXCEPT !.pc = "mail"])
                 ELSE Moved(cb, [cb EXCEPT !.pc = "send", !.text = AGENT_ID])
                        (+) SetToBag({ [cb EXCEPT !.pc = "mail"] })
            /\ extLog' = extLog (+) SetToBag({ Mail(cb) })
            /\ proc' = proc
    /\ UNCHANGED << variant, mainPc, activeAgent, stats, wkspEnv, agenda, starts,
                    pending, joins, nEvents, mdText, template,
                    hasKey, ndncert >>

\* (mutant) the callback ends the process whatever the outcome
SendMailCallback_ExitAlways(error, p) == "exit0"

\* digest: function(error, info) { if (error) log else { log; process.exit(0) } }
SendMailCallback(error, p) == IF error THEN p ELSE "exit0"

\* the sendMail callback runs; in server0 it only prints
cb_mail(cb, ok) ==
    /\ Running(cb, "mail")
    /\ callbacks' = Without(cb)
    /\ extLog' = extLog (+) SetToBag({ MailResult(cb, ok) })
    /\ proc' = IF variant = "digest" THEN SendMailCallback(~ok, proc) ELSE proc
    /\ UNCHANGED << variant, mainPc, activeAgent, stats, wkspEnv, agenda, starts,
                    pending, joins, nEvents, mdText, template,
                    hasKey, ndncert >>

\* server0, headless: get_identity_name() resolves and the reply is
\* published, or one of the two fails
cb_send(cb, ok) ==
    /\ Running(cb, "send")
    /\ callbacks' = Without(cb)
    /\ IF ok THEN /\ pending' = Append(pending, ChatMessage(cb.owner, cb.text))
                  /\ extLog' = extLog (+) SetToBag({ Publication(cb.owner, cb.text, "listener", cb.replaced) })
                  /\ proc' = proc
             ELSE /\ proc' = "crashed" /\ UNCHANGED << pending, extLog >>
    /\ UNCHANGED << variant, mainPc, activeAgent, stats, wkspEnv, agenda, starts,
                    joins, nEvents, mdText, template,
                    hasKey, ndncert >>

----------------------------------------------------------------------------

Next ==
    \/ \E w \in Wksps, h \in PskHexInputs, c \in ChannelInputs : main_args(w, h, c)
    \/ \E ok \in BOOLEAN : initEnvironment(ok)
    \/ \E status \in Statuses : ndncert_status(status)
    \/ \E data \in CodeEntries : askInput_data(data)
    \/ \E ok \in BOOLEAN : ndncert_settled(ok)
    \/ main_startAgent
    \/ main_resume
    \/ startHttpServer
    \/ \E w \in Wksps, h \in PskHexInputs, c \in ChannelInputs, o \in AsyncThrowOutcomes :
          postAgent(w, h, c, o)
    \/ \E i \in 1..MaxStarts, ok \in BOOLEAN : setupWorkspace_get(i, ok)
    \/ \E i \in 1..MaxStarts, ok \in BOOLEAN : setupWorkspace_join(i, ok)
    \/ \E i \in 1..MaxStarts, ok \in BOOLEAN : startAgent_channels(i, ok)
    \/ \E i \in 1..MaxStarts, ok \in BOOLEAN : startAgent_history(i, ok)
    \/ \E i \in 1..MaxStarts, ok \in BOOLEAN : startAgent_input(i, ok)
    \/ \E w \in Wksps, c \in EventChannels, t \in TextInputs : chatEvent(w, c, t)
    \/ deliver
    \/ \E cb \in BagToSet(callbacks), ok \in BOOLEAN, g \in GeneratedTexts : cb_generate(cb, ok, g)
    \/ \E cb \in BagToSet(callbacks) : cb_settle(cb)
    \/ \E cb \in BagToSet(callbacks), ok \in BOOLEAN : cb_mail(cb, ok)
    \/ \E cb \in BagToSet(callbacks), ok \in BOOLEAN : cb_send(cb, ok)

Spec == Init /\ [][Next]_vars

\* the process of src/src/node/headless.ts alone
Init_headless == Init /\ variant = "headless"

Next_headless ==
    \/ \E ok \in BOOLEAN : initEnvironment(ok)
    \/ \E status \in Statuses : ndncert_status(status)
    \/ \E data \in CodeEntries : askInput_data(data)
    \/ \E ok \in BOOLEAN : ndncert_settled(ok)
    \/ startHttpServer
    \/ \E w \in Wksps, h \in PskHexInputs, c \in ChannelInputs, o \in AsyncThrowOutcomes :
          postAgent(w, h, c, o)
    \/ \E i \in 1..MaxStarts, ok \in BOOLEAN : setupWorkspace_get(i, ok)
    \/ \E i \in 1..MaxStarts, ok \in BOOLEAN : setupWorkspace_join(i, ok)
    \/ \E i \in 1..MaxStarts, ok \in BOOLEAN : startAgent_channels(i, ok)
    \/ \E i \in 1..MaxStarts, ok \in BOOLEAN : startAgent_history(i, ok)
    \/ \E w \in Wksps, c \in EventChannels, t \in TextInputs : chatEvent(w, c, t)
    \/ deliver
    \/ \E cb \in BagToSet(callbacks), ok \in BOOLEAN, g \in GeneratedTexts : cb_generate(cb, ok, g)
    \/ \E cb \in BagToSet(callbacks), ok \in BOOLEAN : cb_send(cb, ok)

Spec_headless == Init_headless /\ [][Next_headless]_vars

\* the process of src/unnamed/part_001 launched with a ./wksp.env record:
\* main starts the agent and no HTTP server
Next_digest ==
    \/ \E ok \in BOOLEAN : initEnvironment(ok)
    \/ \E status \in Statuses : ndncert_status(status)
    \/ \E data \in CodeEntries : askInput_data(data)
    \/ \E ok \in BOOLEAN : ndncert_settled(ok)
    \/ main_resume
    \/ \E i \in 1..MaxStarts, ok \in BOOLEAN : setupWorkspace_get(i, ok)
    \/ \E i \in 1..MaxStarts, ok \in BOOLEAN : setupWorkspace_join(i, ok)
    \/ \E i \in 1..MaxStarts, ok \in BOOLEAN : startAgent_channels(i, ok)
    \/ \E i \in 1..MaxStarts, ok \in BOOLEAN : startAgent_input(i, ok)
    \/ \E w \in Wksps, c \in EventChannels, t \in TextInputs : chatEvent(w, c, t)
    \/ deliver
    \/ \E cb \in BagToSet(callbacks) : cb_settle(cb)
    \/ \E cb \in BagToSet(callbacks), ok \in BOOLEAN : cb_mail(cb, ok)

Init_digest == Init /\ variant = "digest" /\ wkspEnv.present

Spec_digest == Init_digest /\ [][Next_digest]_vars

\* the same process, over every agenda text up to MaxDocLen characters
Init_extract ==
    /\ Boot /\ variant = "digest" /\ wkspEnv.present
    /\ mdText \in Documents
    /\ template = TemplateText

Spec_extract == Init_extract /\ [][Next_digest]_vars

\* the same process, over every template of up to MaxTemplateParts parts
Init_splice ==
    /\ Boot /\ variant = "digest" /\ wkspEnv.present
    /\ mdText \in {AgendaText, << "a" >>}
    /\ template \in Templates

Spec_splice == Init_splice /\ [][Next_digest]_vars

----------------------------------------------------------------------------
(* Claims *)

StartIds == 1..Len(starts)

\* a listener of start i is registered in a live process
Attached(i) == proc = "running" /\ starts[i].subscribed

\* start i has published to its channel or sent mail
Acted(i) == \E e \in BagToSet(extLog) : e.by = i

\* C1: at no instant are two channel bridges subscribed to chat events at
\* the same time.
C1_AtMostOneSubscribed ==
    Cardinality({ i \in StartIds : Attached(i) }) <= 1

\* C2: in every state where an agent is subscribed, the active-agent handle
\* is installed and names that agent's workspace and channel.
C2_SubscribedHasHandle ==
    \A i \in StartIds :
        Attached(i) =>
            activeAgent = [wkspName |-> starts[i].wkspName,
                           channelName |-> starts[i].channelName]

\* C3: after a start has failed at any step of workspace setup or channel
\* attach, no active-agent handle is installed and no chat-event subscription
\* created by that start is attached.
C3_FailedStartLeavesNothing ==
    \A i \in StartIds :
        starts[i].pc = "failed" => activeAgent = NullAgent /\ ~Attached(i)

\* C3 witness: a start request failed in setup, was answered, and the
\* process goes on
C3_Witness ==
    \E i \in StartIds :
        /\ starts[i].pc = "failed" /\ starts[i].err = "JoinError"
        /\ starts[i].origin = "http" /\ proc = "running"

\* C4: a listener invocation that was in flight when a later start request
\* was accepted publishes nothing and sends no mail afterwards.
C4_ReplacedCallbackSilent ==
    \A e \in BagToSet(extLog) : ~e.replaced

\* C5: no Workspace.join call is ever issued with a PSK that is not exactly
\* 32 bytes, whichever path started the agent.
C5_NoJoinWithBadPsk ==
    \A j \in joins : j[2].n = 32

\* C6: every POST /agent whose PSK does not decode to 32 bytes is answered
\* 500 {ok:false, error}.
C6_BadPskAnswered500 ==
    \A i \in StartIds :
        starts[i].origin = "http" /\ starts[i].pc = "invalid" => starts[i].resp = "500json"

\* C7: a request is answered 200 only after its agent has been started:
\* workspace set up and channel bridge subscribed.
C7_OkOnlyAfterStarted ==
    \A i \in StartIds :
        starts[i].resp = "200" => starts[i].subscribed /\ starts[i].pc # "failed"

\* C8: a start request whose join fails or whose channel does not exist is
\* answered 500 {ok:false, error} and the process keeps running.
C8_SetupFailureAnswered500 ==
    \A i \in StartIds :
        /\ starts[i].origin = "http"
        /\ \/ starts[i].pc = "failed" /\ starts[i].err = "JoinError"
           \/ starts[i].pc = "notfound"
        => starts[i].resp = "500json" /\ proc = "running"

\* C9: a start whose non-empty channelName matches none of the listed
\* channels never subscribes and never publishes to that channel.
C9_UnknownChannelNeverAttached ==
    \A i \in StartIds :
        /\ starts[i].channelName # ""
        /\ ~FindChannel(Channels(starts[i].wkspName), starts[i].channelName)
        => ~starts[i].subscribed /\ ~Acted(i)

\* C10: a start with an empty channelName never subscribes and never
\* publishes; once the channels are listed (the empty-channel message when
\* there are none) the process has exited with status 0.
C10_ListOnlyTerminal ==
    \A i \in StartIds :
        starts[i].channelName = "" /\ starts[i].pc # "invalid" =>
            /\ ~starts[i].subscribed /\ ~Acted(i)
            /\ starts[i].pc \in {"boot", "get", "join", "channels", "failed", "listed"}
            /\ starts[i].pc = "listed" =>
                 /\ proc = "exit0"
                 /\ starts[i].listed =
                      IF Channels(starts[i].wkspName) = << >> THEN "empty" ELSE "names"
            /\ starts[i].pc # "listed" => starts[i].listed = "none"

\* C10 witness: the channels of a workspace without channels were listed
C10_Witness ==
    \E i \in StartIds :
        /\ starts[i].channelName = "" /\ starts[i].pc = "listed"
        /\ starts[i].listed = "empty" /\ proc = "exit0"

\* C11: a message whose text starts with 'AGENT: ' triggers no dispatch: no
\* listener invocation goes on past the guard for it (no generation call,
\* no digest run).
C11_SentinelNeverDispatched ==
    \A cb \in BagToSet(callbacks) : NotOwnReply(cb.message.text)

\* C12: no message the agent itself published triggers a dispatch when it
\* is delivered back to the agent's listener.
C12_OwnMessageNeverDispatched ==
    \A cb \in BagToSet(callbacks) : cb.message.from # "agent"

\* C13: in AI-reply mode, the delivery of a message to a bridge subscribed
\* on its channel starts exactly one generation call, with the message's
\* text as the prompt, when the text does not start with 'AGENT: ', and none
\* when it does; and every publish made is the end of one such call and puts
\* one message, 'AGENT: ' followed by a generated text, on the channel the
\* triggering message arrived on.
C13_ReplyPerMessage ==
    [][ /\ (pending # << >> /\ pending' = Tail(pending)) =>
             LET m == Head(pending)
                 to == { i \in StartIds : /\ starts[i].subscribed
                                          /\ starts[i].wkspName = m.wksp
                                          /\ starts[i].channelName = m.channel }
                 sentinel == Len(m.text) >= 7 /\ SubSeq(m.text, 1, 7) = AGENT_ID
                 new == callbacks' (-) callbacks
             IN /\ callbacks \sqsubseteq callbacks'
                /\ BagCardinality(new) = IF sentinel THEN 0 ELSE Cardinality(to)
                /\ \A cb \in BagToSet(new) :
                       /\ cb.owner \in to /\ CopiesIn(cb, new) = 1
                       /\ cb.pc = "generate" /\ cb.text = m.text /\ cb.message = m
        /\ (extLog' # extLog) =>
             \E cb \in BagToSet(callbacks), g \in GeneratedTexts :
                 /\ cb.pc = "send" /\ cb.text = AGENT_ID \o g
                 /\ callbacks' = callbacks (-) SetToBag({cb})
                 /\ BagCardinality(extLog') = BagCardinality(extLog) + 1
                 /\ \A e \in BagToSet(extLog' (-) extLog) :
                        e.kind = "publish" /\ e.by = cb.owner /\ e.text = AGENT_ID \o g
                 /\ pending' = Append(pending, [wksp |-> cb.message.wksp,
                                                channel |-> cb.message.channel,
                                                text |-> AGENT_ID \o g, from |-> "agent"])
      ]_vars

\* C13 witness: a reply to a peer's message has been published
C13_Witness ==
    /\ variant = "headless" /\ proc = "running"
    /\ \E e \in BagToSet(extLog), g \in GeneratedTexts :
           e.kind = "publish" /\ e.src = "listener" /\ e.text = AGENT_ID \o g

\* C14: a subscription never performs both dispatch behaviours: no start's
\* listener has both sent a digest mail and published to the channel.
C14_BehavioursNeverMixed ==
    \A i \in StartIds :
        ~ /\ \E e \in BagToSet(extLog) : e.by = i /\ e.kind = "mail"
          /\ \E e \in BagToSet(extLog) :
                 e.by = i /\ e.kind = "publish" /\ e.src = "listener"

\* C15: once a digest mail has been delivered the process has terminated
\* with status 0, and a process that terminated with status 0 without
\* having listed channels has delivered a mail.
C15_DeliveredThenTerminated ==
    /\ \A e \in BagToSet(extLog) : e.kind = "delivered" => proc = "exit0"
    /\ (proc = "exit0" /\ \A i \in StartIds : starts[i].pc # "listed")
           => \E e \in BagToSet(extLog) : e.kind = "delivered"

\* C16: a digest run in a workspace none of whose projects has /agenda.md
\* sends no mail and throws no error.
C16_NoAgendaNoOp ==
    \A e \in BagToSet(extLog) :
        ~agenda[starts[e.by].wkspName] => e.kind \notin {"mail", "uncaught"}

\* C17: the text rendered into a digest mail is the whole agenda text when
\* the text has at most two occurrences of '##', and otherwise the prefix
\* that ends just before the offset at which the third occurrence starts.
\* Occurrences are counted from the left, each one starting at or after the
\* end of the one before, as splitting on the marker finds them.
C17_WindowBeforeThirdMark ==
    \A e \in BagToSet(extLog) : e.kind = "mail" =>
        LET marks(from) == { k \in from..(Len(mdText) - 2) :
                                 mdText[k + 1] = "#" /\ mdText[k + 2] = "#" }
            first(S) == CHOOSE k \in S : \A j \in S : k <= j
            after1 == IF marks(0) = {} THEN {} ELSE marks(first(marks(0)) + 2)
            after2 == IF after1 = {} THEN {} ELSE marks(first(after1) + 2)
            open == CHOOSE k \in 1..Len(e.text) : e.text[k] = "<md>"
            close == CHOOSE k \in 1..Len(e.text) : e.text[k] = "</md>"
            window == SubSeq(e.text, open + 1, close - 1)
        IN window = IF after2 = {} THEN mdText
                    ELSE SubSeq(mdText, 1, first(after2))

\* C17 witness: a mail was sent for an agenda with a third '##' that is not
\* at its end, so the window is a proper prefix
C17_Witness ==
    /\ \E e \in BagToSet(extLog) : e.kind = "mail"
    /\ \E a, b, c \in 0..Len(mdText) :
           /\ a + 2 <= b /\ b + 2 <= c /\ c + 2 < Len(mdText)
           /\ \A k \in {a, b, c} : mdText[k + 1] = "#" /\ mdText[k + 2] = "#"

\* C18: for a template with at least two '<hr>', the html of the mail is the
\* template up to and including its first '<hr>', then the rendered
\* fragment, then the template from its second '<hr>' to the end.
C18_SpliceKeepsOutside ==
    \A e \in BagToSet(extLog) : e.kind = "mail" =>
        LET hrs == { k \in 0..(Len(template) - 4) :
                         SubSeq(template, k + 1, k + 4) = << "<", "h", "r", ">" >> }
            first(S) == CHOOSE k \in S : \A j \in S : k <= j
            p1 == first(hrs)
            p2 == first(hrs \ {p1})
        IN Cardinality(hrs) >= 2 =>
               e.text = SubSeq(template, 1, p1 + 4)
                          \o Markdown(CutText(mdText))
                          \o SubSeq(template, p2 + 1, Len(template))

\* C18 witness: a mail was built from a template with text before its
\* first '<hr>' and between its first and its second '<hr>'
C18_Witness ==
    /\ \E e \in BagToSet(extLog) : e.kind = "mail"
    /\ \E p1, p2 \in 1..Len(template) :
           /\ p1 + 4 < p2 /\ p2 + 4 <= Len(template)
           /\ \A k \in {p1, p2} : SubSeq(template, k + 1, k + 4) = << "<", "h", "r", ">" >>

\* C19: no mail is sent from a template that lacks its first or its second
\* '<hr>'.
C19_MalformedTemplateNoMail ==
    \A e \in BagToSet(extLog) : e.kind = "mail" =>
        Cardinality({ k \in 0..(Len(template) - 4) :
                          SubSeq(template, k + 1, k + 4) = << "<", "h", "r", ">" >> }) >= 2

\* C20: the step in which a mail-transport error is reported leaves the
\* process running and every subscription as it was, sends no mail again,
\* and ends the run that sent the mail without starting anything new.
C20_MailErrorSwallowed ==
    [][ \A e \in BagToSet(extLog' (-) extLog) : e.kind = "mailerror" =>
            /\ proc = "running" /\ proc' = "running"
            /\ starts' = starts /\ starts[e.by].subscribed
            /\ \A x \in BagToSet(extLog' (-) extLog) : x.kind # "mail"
            /\ \E cb \in BagToSet(callbacks) :
                   /\ cb.owner = e.by /\ cb.pc = "mail"
                   /\ callbacks' = callbacks (-) SetToBag({cb})
      ]_vars

\* C20 witness: after a mail-transport error the process runs on and a later
\* message of a peer has started a new digest run
C20_Witness ==
    /\ proc = "running"
    /\ \E e \in BagToSet(extLog) : e.kind = "mailerror"
    /\ \E cb \in BagToSet(callbacks) :
           /\ cb.pc = "settle" /\ cb.message.from = "peer"
           /\ starts[cb.owner].subscribed

\* C21: as long as initEnvironment has not returned, and so as long as no
\* testbed key is known to exist, no workspace has been joined, no listener
\* is subscribed, nothing was resumed from ./wksp.env and no POST /agent was
\* accepted.
C21_IdentityFirst ==
    (~hasKey \/ mainPc \in {"args", "init", "ndncert"}) =>
        /\ mainPc \in {"args", "init", "ndncert"}
        /\ joins = {}
        /\ \A i \in StartIds :
               /\ starts[i].origin = "cli" /\ starts[i].pc \in {"boot", "invalid"}
               /\ ~starts[i].subscribed

\* C21 witness: the challenge is pending, a code was asked for, and nothing
\* else has been started
C21_Witness ==
    /\ ~hasKey /\ mainPc = "ndncert" /\ ndncert.pc = "asking"
    /\ proc = "running" /\ starts = << >>

\* C22: with a testbed key present no step issues a challenge or asks for a
\* code: no ndncert_email call exists before or after the step, and the key
\* stays.
C22_NoChallengeWithKey ==
    [][ hasKey => hasKey' /\ ndncert = NoCall /\ ndncert' = NoCall ]_vars

\* C22 witness: initEnvironment has returned for a process that had its key
\* and the server is up
C22_Witness ==
    hasKey /\ ndncert = NoCall /\ mainPc = "serving" /\ proc = "running"

\* C23: every 'need-code' callback asks once and what it returns is the
\* entered line without the white space around it; every other status
\* returns '' and leaves the call pending; no callback ends the process.
C23_CodePerNeedCode ==
    [][ /\ (ndncert.pc = "waiting" /\ ndncert'.n = ndncert.n + 1) =>
              /\ proc' = "running"
              /\ ndncert'.status = "need-code" =>
                     ndncert'.pc = "asking" /\ ndncert'.asked = ndncert.asked + 1
              /\ ndncert'.status # "need-code" =>
                     /\ ndncert'.pc = "waiting" /\ ndncert'.asked = ndncert.asked
                     /\ ndncert'.reply = << >>
        /\ (ndncert.pc = "asking" /\ ndncert' # ndncert) =>
              /\ proc' = "running" /\ ndncert'.pc = "waiting"
              /\ ndncert'.n = ndncert.n /\ ndncert'.asked = ndncert.asked
              /\ \E e \in CodeEntries, a \in 1..4, b \in 0..3 :
                     /\ b <= Len(e) /\ a <= b + 1
                     /\ ndncert'.reply = SubSeq(e, a, b)
                     /\ \A k \in 1..Len(e) : (k < a \/ k > b) => e[k] \in {" ", "\n"}
                     /\ a <= b => e[a] \notin {" ", "\n"} /\ e[b] \notin {" ", "\n"}
      ]_vars

\* C23 witness: three callbacks, one of them not 'need-code'; the last one
\* asked again and the code entered was returned
C23_Witness ==
    /\ ndncert.n = 3 /\ ndncert.asked = 2 /\ ndncert.status = "need-code"
    /\ ndncert.pc = "waiting" /\ ndncert.reply = << "7" >> /\ proc = "running"

\* C24: when the identity service has rejected the issuance for good the
\* process has exited with status 1, the HTTP server was never started and
\* no agent was started.
C24_TerminalFailureAborts ==
    ndncert.pc = "rejected" =>
        /\ proc = "exit1" /\ mainPc = "ndncert" /\ joins = {} /\ ~hasKey
        /\ \A i \in StartIds :
               /\ starts[i].origin = "cli" /\ starts[i].pc = "boot"
               /\ ~starts[i].subscribed

\* C24 witness: the issuance was rejected after a code had been submitted
C24_Witness ==
    ndncert.pc = "rejected" /\ ndncert.asked = 1 /\ proc = "exit1"

\* C25: when a start leaves the metadata lookup, Workspace.join is called
\* exactly if the store holds no entry for the workspace name; with an entry
\* the start goes straight on to Workspace.setup; after a join that
\* succeeded the start goes on to Workspace.setup too; and no join is issued
\* in any other step.
C25_JoinIffNoMetadata ==
    [][ /\ \A i \in StartIds :
             LET s == starts[i]
                 t == starts'[i]
             IN /\ (s.pc = "get" /\ t.pc \notin {"get", "failed"}) =>
                      IF stats[s.wkspName] = "absent"
                      THEN t.pc = "join" /\ << s.wkspName, s.psk >> \in joins'
                      ELSE t.pc = "channels" /\ joins' = joins
                /\ (s.pc = "join" /\ t.pc \notin {"join", "failed"}) =>
                      t.pc = "channels" /\ joins' = joins
                /\ (t.pc = "join" /\ s.pc # "join") => s.pc = "get"
        /\ joins' # joins =>
             \E i \in StartIds : starts[i].pc = "get" /\ starts'[i].pc = "join"
      ]_vars

\* C25 witness: two starts set up a workspace the store has an entry for,
\* and neither of them joined
C25_Witness ==
    \E i, k \in StartIds :
        /\ i # k /\ starts[i].wkspName = starts[k].wkspName
        /\ starts[i].wkspName \in Wksps
        /\ stats[starts[i].wkspName] = "meta" /\ joins = {}
        /\ starts[i].pc = "forever" /\ starts[k].pc = "history"
        /\ proc = "running"

\* C26: where setup relaxes certificate validation, no setup fails on the
\* metadata after its join succeeded, and a start that is past setup has
\* the relaxed flag stored for its workspace.
C26_RelaxedFlagPersisted ==
    \A i \in StartIds : ForcesIgnore =>
        /\ starts[i].err # "TypeError"
        /\ starts[i].pc \in {"channels", "history", "input", "forever"} =>
               stats[starts[i].wkspName] = "ignore"

\* C27: a ./wksp.env record written by this process holds the parameters of
\* a start that succeeded: its listener is subscribed and the start has not
\* failed.
C27_RecordOnlyAfterSuccess ==
    (wkspEnv.present /\ \E i \in StartIds : starts[i].origin = "http") =>
        \E i \in StartIds :
            /\ starts[i].origin = "http" /\ starts[i].pc = "forever"
            /\ starts[i].subscribed
            /\ wkspEnv.wkspName = starts[i].wkspName
            /\ wkspEnv.channel = starts[i].channelName

\* C28: a POST /agent request whose agent is started and subscribed, so that
\* startAgent is waiting forever, has been answered.
C28_StartedRequestAnswered ==
    \A i \in StartIds :
        (starts[i].origin = "http" /\ starts[i].pc = "forever") =>
            starts[i].resp \in {"200", "500json"}

\* C29: at most one digest mail is sent in a process run.
C29_AtMostOneMail ==
    BagCardinality([e \in { x \in BagToSet(extLog) : x.kind = "mail" } |->
                       CopiesIn(e, extLog)]) <= 1

====
